---- MODULE Spec2Model ----
(***************************************************************************)
(* Model of raspberry_Pi.py: a CPU stress harness.  main() spawns one      *)
(* stress_worker process per core, then runs a control loop that escalates *)
(* phase/intensity every phase_duration seconds, publishes them through    *)
(* two multiprocessing.Manager values, and prints a telemetry line about   *)
(* once a second.                                                          *)
(*                                                                         *)
(* Time is counted in tenths of a second: 0.1 s = 1, 0.2 s = 2, 1 s = 10,  *)
(* 30 s = 300.  The wall clock advances where the control loop blocks:     *)
(* psutil.cpu_percent(interval=0.1) and time.sleep(0.2).                   *)
(***************************************************************************)
EXTENDS Integers, Sequences, FiniteSets, TLC

\* ---------------------------------------------------------------- bounds
\* Number of cores reported by multiprocessing.cpu_count().
NumCores == 2
\* Control-loop iterations explored under arbitrary sleep overruns (Spec).
MaxTicks == 5
\* Wall-clock horizon explored under the nominal cadence (CadenceSpec).
CadenceHorizon == 1250

\* ------------------------------------------------------ program constants
phase_duration == 300      \* line 74: 30 s
LogInterval == 10          \* line 102: 1 s
UsageWindow == 1           \* line 106: cpu_percent(interval=0.1)
SleepTime == 2             \* line 110: time.sleep(0.2)
MaxPhase == 4              \* lines 93-94

\* Durations one time.sleep(0.2) may take when the scheduler delays the
\* control loop: the nominal 0.2 s, an overrun that ends exactly one log
\* interval after a sampling tick, and an overrun of a whole phase.
SleepTimes == {SleepTime, LogInterval - UsageWindow, phase_duration}

Workers == 1..NumCores

\* ------------------------------------------------------- Python values
\* A Python object is either an int or a manager ValueProxy.
PyInt(n) == [t |-> "int", v |-> n, ref |-> ""]
PyProxy(name) == [t |-> "proxy", v |-> 0, ref |-> name]

\* a == b on Python objects.  ValueProxy defines no __eq__, so a proxy
\* compared with an int falls back to identity and is False.
PyEq(a, b) ==
    IF a.t = "int" /\ b.t = "int" THEN a.v = b.v
    ELSE a.t = b.t /\ a.ref = b.ref

\* a * n for an int n.  A ValueProxy has no __mul__: TypeError.
TypeError == [gen |-> "TypeError", work |-> <<>>]
IsInt(a) == a.t = "int"

\* ------------------------------------------------------ load generators
NoLoad == [gen |-> "none", work |-> <<>>]
Idle == [gen |-> "idle", work |-> <<>>]

\* lines 10-14: x += 1, intensity * 500 times
simple_arithmetic(intensity) ==
    IF IsInt(intensity)
    THEN [gen |-> "simple_arithmetic", work |-> <<intensity.v * 500>>]
    ELSE TypeError

\* lines 16-20: x *= 2, intensity * 1000 times
complex_arithmetic(intensity) ==
    IF IsInt(intensity)
    THEN [gen |-> "complex_arithmetic", work |-> <<intensity.v * 1000>>]
    ELSE TypeError

\* lines 22-27: product of two size x size matrices, size = intensity * 15
matrix_operations(intensity) ==
    IF IsInt(intensity)
    THEN [gen |-> "matrix_operations", work |-> <<intensity.v * 15>>]
    ELSE TypeError

\* lines 29-33: sha256 of b"stress_data" * (intensity * 10), intensity * 20 times
intensive_hashing(intensity) ==
    IF IsInt(intensity)
    THEN [gen |-> "intensive_hashing", work |-> <<intensity.v * 10, intensity.v * 20>>]
    ELSE TypeError

\* lines 38-45: one pass of the if/elif chain of stress_worker on the
\* objects it was given as phase and intensity.
stress_worker_body(ph, int) ==
    IF PyEq(ph, PyInt(1)) THEN simple_arithmetic(int)
    ELSE IF PyEq(ph, PyInt(2)) THEN complex_arithmetic(int)
    ELSE IF PyEq(ph, PyInt(3)) THEN matrix_operations(int)
    ELSE IF PyEq(ph, PyInt(4)) THEN intensive_hashing(int)
    ELSE NoLoad

\* line 81: args=(shared_phase, shared_intensity): the proxies themselves.
WorkerArgs == <<PyProxy("shared_phase"), PyProxy("shared_intensity")>>

\* ------------------------------------------------------ sensor adapters
\* A str is a sequence of one-character strings.
Digits == <<"0", "1", "2", "3", "4", "5", "6", "7", "8", "9">>
IsDigit(c) == \E i \in 1..10 : Digits[i] = c
DigitVal(c) == (CHOOSE i \in 1..10 : Digits[i] = c) - 1
IsSpace(c) == c \in {" ", "\n", "\t"}

RECURSIVE SplitFrom(_, _, _, _, _)
SplitFrom(s, sep, i, cur, acc) ==
    IF i > Len(s) THEN Append(acc, cur)
    ELSE IF s[i] = sep THEN SplitFrom(s, sep, i + 1, <<>>, Append(acc, cur))
    ELSE SplitFrom(s, sep, i + 1, Append(cur, s[i]), acc)

\* str.split(sep) for a one-character separator.
Split(s, sep) == SplitFrom(s, sep, 1, <<>>, <<>>)

RECURSIVE Strip(_)
\* str.strip(): what int() and float() do to their argument first.
Strip(s) ==
    IF s = <<>> THEN s
    ELSE IF IsSpace(s[1]) THEN Strip(Tail(s))
    ELSE IF IsSpace(s[Len(s)]) THEN Strip(SubSeq(s, 1, Len(s) - 1))
    ELSE s

RECURSIVE DigitsValue(_)
DigitsValue(s) ==
    IF s = <<>> THEN 0
    ELSE 10 * DigitsValue(SubSeq(s, 1, Len(s) - 1)) + DigitVal(s[Len(s)])

RECURSIVE Pow10(_)
Pow10(n) == IF n = 0 THEN 1 ELSE 10 * Pow10(n - 1)

\* A Python float is kept exactly, as numerator over denominator; None is
\* the value with denominator 0.
None == [num |-> 0, den |-> 0]
Float(n, d) == [num |-> n, den |-> d]

\* int(s) for an unsigned decimal literal: ok and the value, or not ok
\* (ValueError).
ParseInt(s) ==
    LET t == Strip(s) IN
    IF t # <<>> /\ \A i \in 1..Len(t) : IsDigit(t[i])
    THEN [ok |-> TRUE, v |-> DigitsValue(t)]
    ELSE [ok |-> FALSE, v |-> 0]

\* float(s) for an unsigned decimal literal with at most one point: the
\* value, or None standing for ValueError.
ParseFloat(s) ==
    LET t == Strip(s)
        dots == {i \in 1..Len(t) : t[i] = "."}
        digs == {i \in 1..Len(t) : IsDigit(t[i])}
    IN  IF digs = {} \/ Cardinality(dots) > 1
           \/ dots \cup digs # 1..Len(t)
        THEN None
        ELSE IF dots = {} THEN Float(DigitsValue(t), 1)
        ELSE LET d == CHOOSE i \in dots : TRUE
                 whole == SubSeq(t, 1, d - 1)
                 frac == SubSeq(t, d + 1, Len(t))
             IN Float(DigitsValue(whole \o frac), Pow10(Len(frac)))

\* What subprocess.check_output(['vcgencmd', ...]) does: raises (command
\* missing, non-zero exit), or returns the command's output.
Raised == [raised |-> TRUE, text |-> <<>>]
Output(s) == [raised |-> FALSE, text |-> s]


\* "f=600000000\n": 600 MHz, in the format of vcgencmd measure_clock arm.
GoodFreqOutput ==
    Output(<<"f", "=", "6", "0", "0", "0", "0", "0", "0", "0", "0", "\n">>)

\* "t=47.2'C\n": 47.2 degrees, in the format of vcgencmd measure_temp.
GoodTempOutput == Output(<<"t", "=", "4", "7", ".", "2", "'", "C", "\n">>)

FreqOutputs ==
    { Raised, GoodFreqOutput,
      Output(<<"f", "=", "x", "\n">>),
      Output(<<"e", "r", "r", "\n">>) }

TempOutputs ==
    { Raised, GoodTempOutput,
      Output(<<"t", "=", "\n">>),
      Output(<<"e", "r", "r", "\n">>) }

\* How a call ends: it returns val, or raises exc (exc # "").
Return(v) == [exc |-> "", val |-> v]
Raise(e) == [exc |-> e, val |-> None]

\* lines 50-52: the try body of get_cpu_frequency.
cpu_frequency_try(out) ==
    IF out.raised THEN Raise("CalledProcessError")
    ELSE LET parts == Split(out.text, "=") IN
         IF Len(parts) < 2 THEN Raise("IndexError")
         ELSE LET n == ParseInt(parts[2]) IN
              IF ~n.ok THEN Raise("ValueError")
              ELSE Return(Float(n.v, 1000000))

\* lines 47-54: except Exception: return None
get_cpu_frequency(out) ==
    LET r == cpu_frequency_try(out) IN
    IF r.exc # "" THEN Return(None) ELSE r

\* lines 59-61: the try body of get_cpu_temperature.
cpu_temperature_try(out) ==
    IF out.raised THEN Raise("CalledProcessError")
    ELSE LET parts == Split(out.text, "=") IN
         IF Len(parts) < 2 THEN Raise("IndexError")
         ELSE LET t == ParseFloat(Split(parts[2], "'")[1]) IN
              IF t = None THEN Raise("ValueError")
              ELSE Return(t)

\* lines 56-63 catching only the failure of the command.
get_cpu_temperature_Narrow(out) ==
    LET r == cpu_temperature_try(out) IN
    IF r.exc = "CalledProcessError" THEN Return(None) ELSE r

\* lines 56-63: except Exception: return None
get_cpu_temperature(out) ==
    LET r == cpu_temperature_try(out) IN
    IF r.exc # "" THEN Return(None) ELSE r

\* Readings of psutil.cpu_percent and os.getloadavg.
UsageReadings == {100}
LoadReadings == {<<2, 1, 1>>}

\* ------------------------------------------------------------- state
VARIABLES
    pc,                \* where main() is
    clock,             \* time.time()
    ticks,             \* control-loop iterations begun
    phase,             \* main's local phase
    intensity,         \* main's local intensity
    phase_start_time,
    current_time,
    last_log_time,
    shared_phase,      \* manager.Value('i', ...).value
    shared_intensity,
    processes,         \* list of spawned workers, in spawn order
    wstate,            \* each worker process: unspawned/running/crashed/terminated
    load,              \* what each worker's latest loop pass ran
    out,               \* lines printed so far in the current iteration
    probe,             \* what the vcgencmd calls of the current iteration returned
    sample_ticks,      \* current_time of the latest two telemetry lines
    term_idx,          \* position of the shutdown loop in processes
    term_calls,        \* p.terminate() calls made on each worker
    exit_status        \* -1 while the harness runs

vars == <<pc, clock, ticks, phase, intensity, phase_start_time, current_time,
          last_log_time, shared_phase, shared_intensity, processes, wstate,
          load, out, probe, sample_ticks, term_idx, term_calls, exit_status>>

ctl == <<phase, intensity, phase_start_time, current_time, last_log_time>>
shared == <<shared_phase, shared_intensity>>
pool == <<processes, wstate, load, term_idx, term_calls>>

NoProbe == [freq |-> Raised, temp |-> Raised, made |-> FALSE]

\* lines 66-78: state of main() when it reaches the spawn loop.
Init ==
    /\ pc = "spawn"
    /\ clock = 0
    /\ ticks = 0
    /\ phase = 1
    /\ intensity = 1
    /\ phase_start_time = 0
    /\ current_time = 0
    /\ last_log_time = 0
    /\ shared_phase = 1
    /\ shared_intensity = 1
    /\ processes = <<>>
    /\ wstate = [w \in Workers |-> "unspawned"]
    /\ load = [w \in Workers |-> Idle]
    /\ out = <<[kind |-> "startup", cores |-> NumCores]>>
    /\ probe = NoProbe
    /\ sample_ticks = <<>>
    /\ term_idx = 0
    /\ term_calls = [w \in Workers |-> 0]
    /\ exit_status = -1

\* What the interpreter writes when exception e leaves main() uncaught.
Traceback(e) == [kind |-> "traceback", exc |-> e]

\* ------------------------------------------------------------ startup
\* lines 80-83: one pass of the spawn loop, p.start() succeeding.
Spawn ==
    /\ pc = "spawn"
    /\ Len(processes) < NumCores
    /\ LET w == Len(processes) + 1 IN
        /\ wstate' = [wstate EXCEPT ![w] = "running"]
        /\ processes' = Append(processes, w)
    /\ UNCHANGED <<pc, clock, ticks, ctl, shared, load, out, probe,
                   sample_ticks, term_idx, term_calls, exit_status>>

\* line 82: p.start() raises OSError; nothing catches it outside the try.
SpawnFail ==
    /\ pc = "spawn"
    /\ Len(processes) < NumCores
    /\ pc' = "aborted"
    /\ exit_status' = 1
    /\ out' = Append(out, Traceback("OSError"))
    /\ UNCHANGED <<clock, ticks, ctl, shared, pool, probe, sample_ticks>>

\* lines 85-86
EnterLoop ==
    /\ pc = "spawn"
    /\ Len(processes) = NumCores
    /\ last_log_time' = clock
    /\ pc' = "tick"
    /\ UNCHANGED <<clock, ticks, phase, intensity, phase_start_time, current_time,
                   shared, pool, out, probe, sample_ticks, exit_status>>

\* ------------------------------------------------------- control loop
\* line 91 with the start of the phase left out of the comparison.
EscalationDue_NoStart(now, start) == now >= phase_duration

\* line 91
EscalationDue(now, start) == now - start >= phase_duration

\* lines 92-94 without the clamp.
NextPhase_NoClamp(p) == p + 1

\* lines 92-94 with the clamp one phase early.
NextPhase_ClampEarly(p) == IF p + 1 >= MaxPhase THEN MaxPhase - 1 ELSE p + 1

\* lines 92-94
NextPhase(p) == IF p + 1 > MaxPhase THEN MaxPhase ELSE p + 1

\* line 96 with the intensity clamped as the phase is.
NextIntensity_Clamped(i) == IF i + 1 > MaxPhase THEN MaxPhase ELSE i + 1

\* line 96
NextIntensity(i) == i + 1

\* line 102 with the utilization window as the period.
LogDue_Window(now, last) == now - last >= UsageWindow

\* line 102
LogDue(now, last) == now - last >= LogInterval

\* line 99 printed before line 96 has raised the intensity.
EscalationLine_Old(p, i) == [kind |-> "escalation", phase |-> p, intensity |-> i - 1]

\* line 99
EscalationLine(p, i) == [kind |-> "escalation", phase |-> p, intensity |-> i]

\* line 107
TelemetryLine(p, i, f, t, u, l) ==
    [kind |-> "telemetry", phase |-> p, intensity |-> i, cpu_freq |-> f,
     cpu_temp |-> t, cpu_usage |-> u, load_avg |-> l]

\* lines 88, 91: an iteration that finds no escalation due.
NoEscalation ==
    /\ pc = "tick"
    /\ ~EscalationDue(clock, phase_start_time)
    /\ current_time' = clock
    /\ ticks' = ticks + 1
    /\ pc' = "log"
    /\ UNCHANGED <<clock, phase, intensity, phase_start_time, last_log_time,
                   shared, pool, out, probe, sample_ticks, exit_status>>

\* lines 88, 91-95 with line 95 moved before the clamp of lines 93-94.
EscalatePhase_PublishFirst ==
    /\ pc = "tick"
    /\ EscalationDue(clock, phase_start_time)
    /\ current_time' = clock
    /\ ticks' = ticks + 1
    /\ phase' = NextPhase(phase)
    /\ shared_phase' = phase + 1
    /\ pc' = "esc"
    /\ UNCHANGED <<clock, intensity, phase_start_time, last_log_time,
                   shared_intensity, pool, out, probe, sample_ticks, exit_status>>

\* lines 88, 91-95: the escalation up to the write of shared_phase.
EscalatePhase ==
    /\ pc = "tick"
    /\ EscalationDue(clock, phase_start_time)
    /\ current_time' = clock
    /\ ticks' = ticks + 1
    /\ phase' = NextPhase(phase)
    /\ shared_phase' = phase'
    /\ pc' = "esc"
    /\ UNCHANGED <<clock, intensity, phase_start_time, last_log_time,
                   shared_intensity, pool, out, probe, sample_ticks, exit_status>>

\* lines 96-99 with line 98 advancing the phase timer by one phase_duration
\* instead of restarting it from the observed time.
EscalateIntensity_Drift ==
    /\ pc = "esc"
    /\ intensity' = NextIntensity(intensity)
    /\ shared_intensity' = intensity'
    /\ phase_start_time' = phase_start_time + phase_duration
    /\ out' = Append(out, EscalationLine(phase, intensity'))
    /\ pc' = "log"
    /\ UNCHANGED <<clock, ticks, phase, current_time, last_log_time, shared_phase,
                   pool, probe, sample_ticks, exit_status>>

\* lines 96-99: the rest of the escalation.
EscalateIntensity ==
    /\ pc = "esc"
    /\ intensity' = NextIntensity(intensity)
    /\ shared_intensity' = intensity'
    /\ phase_start_time' = current_time
    /\ out' = Append(out, EscalationLine(phase, intensity'))
    /\ pc' = "log"
    /\ UNCHANGED <<clock, ticks, phase, current_time, last_log_time, shared_phase,
                   pool, probe, sample_ticks, exit_status>>

\* The latest two entries of a list.
LastTwo(s) == IF Len(s) > 2 THEN SubSeq(s, Len(s) - 1, Len(s)) ELSE s

\* lines 102-108: a telemetry line; cpu_percent blocks for UsageWindow.  An
\* exception leaving a sensor call is no KeyboardInterrupt: it ends main().
LogSample ==
    /\ pc = "log"
    /\ LogDue(current_time, last_log_time)
    /\ \E fo \in FreqOutputs, to \in TempOutputs, u \in UsageReadings, l \in LoadReadings :
        LET f == get_cpu_frequency(fo)
            t == get_cpu_temperature(to)
        IN  /\ probe' = [freq |-> fo, temp |-> to, made |-> TRUE]
            /\ IF f.exc # "" \/ t.exc # ""
               THEN /\ pc' = "aborted"
                    /\ exit_status' = 1
                    /\ out' = Append(out, Traceback(IF f.exc # "" THEN f.exc ELSE t.exc))
                    /\ UNCHANGED <<clock, last_log_time, sample_ticks>>
               ELSE /\ clock' = clock + UsageWindow
                    /\ out' = Append(out, TelemetryLine(phase, intensity, f.val, t.val, u, l))
                    /\ last_log_time' = current_time
                    /\ sample_ticks' = LastTwo(Append(sample_ticks, current_time))
                    /\ pc' = "sleep"
                    /\ UNCHANGED exit_status
    /\ UNCHANGED <<ticks, phase, intensity, phase_start_time, current_time,
                   shared, pool>>

\* line 102, condition false
SkipLog ==
    /\ pc = "log"
    /\ ~LogDue(current_time, last_log_time)
    /\ pc' = "sleep"
    /\ UNCHANGED <<clock, ticks, ctl, shared, pool, out, probe, sample_ticks,
                   exit_status>>

\* line 110: time.sleep(0.2) returning after d; the iteration is over.
Sleep(d) ==
    /\ pc = "sleep"
    /\ clock' = clock + d
    /\ out' = <<>>
    /\ probe' = NoProbe
    /\ pc' = "tick"
    /\ UNCHANGED <<ticks, ctl, shared, pool, sample_ticks, exit_status>>

\* The scheduler may delay the loop by any of SleepTimes.
SleepAny == ticks < MaxTicks /\ \E d \in SleepTimes : Sleep(d)

\* Durations of one time.sleep(0.2) when the process is held up for long:
\* the nominal 0.2 s, a whole phase, and several phases.
GapSleepTimes == {SleepTime, phase_duration, 3 * phase_duration}

\* The loop resumed after a long gap.
SleepGap == ticks < MaxTicks /\ \E d \in GapSleepTimes : Sleep(d)

\* The loop at its nominal cadence.
SleepNominal == clock < CadenceHorizon /\ Sleep(SleepTime)

\* ----------------------------------------------------------- shutdown
InLoop == pc \in {"tick", "esc", "log", "sleep"}

\* KeyboardInterrupt raised inside the try: lines 112-113.
Interrupt ==
    /\ InLoop
    /\ pc' = "handler"
    /\ term_idx' = 1
    /\ out' = Append(out, [kind |-> "stopping"])
    /\ UNCHANGED <<clock, ticks, ctl, shared, processes, wstate, load, probe,
                   sample_ticks, term_calls, exit_status>>

\* KeyboardInterrupt raised outside the try (the spawn loop) or inside the
\* except clause: nothing catches it.
InterruptUncaught ==
    /\ pc \in {"spawn", "handler"}
    /\ pc' = "aborted"
    /\ exit_status' = 1
    /\ out' = Append(out, Traceback("KeyboardInterrupt"))
    /\ UNCHANGED <<clock, ticks, ctl, shared, pool, probe, sample_ticks>>

\* lines 114-115: one pass of the terminate loop.
Terminate ==
    /\ pc = "handler"
    /\ term_idx <= Len(processes)
    /\ LET w == processes[term_idx] IN
        /\ wstate' = [wstate EXCEPT ![w] = IF @ = "running" THEN "terminated" ELSE @]
        /\ term_calls' = [term_calls EXCEPT ![w] = @ + 1]
    /\ term_idx' = term_idx + 1
    /\ UNCHANGED <<pc, clock, ticks, ctl, shared, processes, load, out, probe,
                   sample_ticks, exit_status>>

\* line 116
Exit ==
    /\ pc = "handler"
    /\ term_idx > Len(processes)
    /\ pc' = "exited"
    /\ exit_status' = 0
    /\ UNCHANGED <<clock, ticks, ctl, shared, pool, out, probe, sample_ticks>>

\* ------------------------------------------------------------ workers
\* lines 37-45 with a worker that clamps the phase itself, writing it back
\* through the proxy.
WorkerLoop_Writes(w) ==
    /\ wstate[w] = "running"
    /\ load' = [load EXCEPT ![w] = NoLoad]
    /\ shared_phase' = IF shared_phase > 3 THEN 3 ELSE shared_phase
    /\ UNCHANGED <<pc, clock, ticks, ctl, shared_intensity, processes, wstate,
                   out, probe, sample_ticks, term_idx, term_calls, exit_status>>

\* lines 37-45: one pass of the worker's loop.  An exception in a load
\* generator ends the process.
WorkerLoop(w) ==
    /\ wstate[w] = "running"
    /\ LET r == stress_worker_body(WorkerArgs[1], WorkerArgs[2]) IN
        IF r = TypeError
        THEN wstate' = [wstate EXCEPT ![w] = "crashed"] /\ UNCHANGED load
        ELSE load' = [load EXCEPT ![w] = r] /\ UNCHANGED wstate
    /\ UNCHANGED <<pc, clock, ticks, ctl, shared, processes, out, probe,
                   sample_ticks, term_idx, term_calls, exit_status>>

\* A worker's death taking main() down with it, as an exception raised in
\* main() would.
WorkerCrash_Propagates(w) ==
    /\ wstate[w] = "running"
    /\ wstate' = [wstate EXCEPT ![w] = "crashed"]
    /\ pc' = "aborted"
    /\ exit_status' = 1
    /\ UNCHANGED <<clock, ticks, ctl, shared, processes, load, out, probe,
                   sample_ticks, term_idx, term_calls>>

\* A worker process dying at run time from outside its code (killed by the
\* OS, out of memory).
WorkerCrash(w) ==
    /\ wstate[w] = "running"
    /\ wstate' = [wstate EXCEPT ![w] = "crashed"]
    /\ UNCHANGED <<pc, clock, ticks, ctl, shared, processes, load, out, probe,
                   sample_ticks, term_idx, term_calls, exit_status>>

\* ------------------------------------------------------ specifications
Control ==
    \/ Spawn
    \/ SpawnFail
    \/ EnterLoop
    \/ NoEscalation
    \/ EscalatePhase
    \/ EscalateIntensity
    \/ LogSample
    \/ SkipLog
    \/ Interrupt
    \/ InterruptUncaught
    \/ Terminate
    \/ Exit

Pool == \E w \in Workers : WorkerLoop(w) \/ WorkerCrash(w)

Next == Control \/ SleepAny \/ Pool

Spec == Init /\ [][Next]_vars

CadenceNext == Control \/ SleepNominal \/ Pool

CadenceSpec == Init /\ [][CadenceNext]_vars

GapNext == Control \/ SleepGap \/ Pool

GapSpec == Init /\ [][GapNext]_vars

\* The control loop's own steps: it is one process that keeps running.
LoopStep ==
    \/ NoEscalation
    \/ EscalatePhase
    \/ EscalateIntensity
    \/ LogSample
    \/ SkipLog
    \/ SleepAny

\* Every process that can run does run: main(), whether it is spawning,
\* looping or shutting down, and each worker.
FairSpec ==
    /\ Init /\ [][Next]_vars
    /\ WF_vars(Spawn \/ EnterLoop \/ LoopStep \/ Terminate \/ Exit)
    /\ \A w \in Workers : WF_vars(WorkerLoop(w))

\* ------------------------------------------------------------ properties
HasLine(o, k) == \E i \in 1..Len(o) : o[i].kind = k

\* C1: the phase held by the control loop and the phase published in
\* shared storage start at 1, never decrease from one state to the next,
\* and never exceed 4, whatever the gaps between ticks.
C1_PhaseMonotoneBounded ==
    /\ phase = 1 /\ shared_phase = 1
    /\ [][ /\ phase' >= phase /\ phase' <= 4
           /\ shared_phase' >= shared_phase /\ shared_phase' <= 4 ]_vars

\* C1 case: a fifth state of the escalation, taken with the phase already 4.
C1_Witness == phase = 4 /\ shared_phase = 4 /\ intensity = 5 /\ pc = "log"

\* C2: intensity starts at 1; a tick escalates exactly when
\* now - phase_start_time >= 30 s; every escalation that runs to its end
\* adds exactly 1 to the local and the published intensity, also at phase
\* 4; no other step changes either.
C2_IntensityStep ==
    /\ intensity = 1 /\ shared_intensity = 1
    /\ [][ /\ (pc = "tick" /\ pc' \in {"esc", "log"})
                => (pc' = "esc" <=> clock - phase_start_time >= 300)
           /\ IF pc = "esc" /\ pc' = "log"
              THEN intensity' = intensity + 1 /\ shared_intensity' = intensity + 1
              ELSE intensity' = intensity /\ shared_intensity' = shared_intensity ]_vars

\* C2 case: an escalation completed from phase 4 (the fourth one).
C2_Witness ==
    /\ shared_intensity = 5 /\ shared_phase = 4
    /\ HasLine(out, "escalation") /\ pc = "sleep"

\* C3: a tick made while now - phase_start_time < 30 s changes neither the
\* local phase, intensity and phase_start_time nor the published pair and
\* prints no escalation line, and neither does the rest of its iteration.
C3_QuietTickNoOp ==
    [][ /\ (pc = "tick" /\ clock - phase_start_time < 300)
            => /\ pc' # "esc"
               /\ UNCHANGED <<phase, intensity, phase_start_time, shared>>
               /\ ~HasLine(out', "escalation")
        /\ (pc \in {"log", "sleep"})
            => /\ UNCHANGED <<phase, intensity, phase_start_time, shared>>
               /\ HasLine(out', "escalation") => HasLine(out, "escalation") ]_vars

\* C3 case: the fourth tick in a row inside the first phase window.
C3_Witness ==
    /\ ticks = 4 /\ pc = "sleep" /\ phase_start_time = 0 /\ current_time > 0
    /\ ~HasLine(out, "escalation") /\ phase = 1 /\ intensity = 1

\* C4: at the nominal cadence, once 3.5 * phase_duration = 105 s have
\* passed (and before the fourth escalation falls due) the local and the
\* published state are phase 4, intensity 4.
C4_ScenarioThreeAndAHalf ==
    (clock >= (7 * phase_duration) \div 2 /\ clock < 4 * phase_duration)
        => /\ phase = 4 /\ intensity = 4
           /\ shared_phase = 4 /\ shared_intensity = 4

\* C4 case: the loop is still ticking after 105 s.
C4_Witness == clock >= (7 * phase_duration) \div 2 /\ pc = "tick" /\ ticks > 400

\* The dispatch table: the load of phase p at intensity k.
Expected(p, k) ==
    CASE p = 1 -> [gen |-> "simple_arithmetic", work |-> <<500 * k>>]
      [] p = 2 -> [gen |-> "complex_arithmetic", work |-> <<1000 * k>>]
      [] p = 3 -> [gen |-> "matrix_operations", work |-> <<15 * k>>]
      [] p = 4 -> [gen |-> "intensive_hashing", work |-> <<10 * k, 20 * k>>]
      [] OTHER -> NoLoad

\* C5: every pass of a worker's loop runs the load generator of the phase
\* published at that moment, with the published intensity as parameter.
C5_WorkerDispatch ==
    [][ \A w \in Workers :
          load'[w] # load[w] => load'[w] = Expected(shared_phase, shared_intensity) ]_vars

\* C6: once an escalation is published, every worker still running
\* eventually runs the load generator of the published phase with the
\* published intensity (or stops running).
C6_WorkersFollow ==
    \A w \in Workers :
        [](( /\ wstate[w] = "running"
             /\ pc = "log" /\ HasLine(out, "escalation") )
            => <>( \/ wstate[w] # "running"
                   \/ load[w] = Expected(shared_phase, shared_intensity) ))

\* The (phase, intensity) pairs the control loop holds between escalations.
HeldPairs == { <<IF k > 4 THEN 4 ELSE k, k>> : k \in 1..(MaxTicks + 2) }

\* C7: the pair a reader finds in shared storage is at every moment a pair
\* the control loop held between escalations, never the new phase with the
\* old intensity.
C7_PairAtomic == <<shared_phase, shared_intensity>> \in HeldPairs

\* C8: two consecutive telemetry lines come from ticks whose observed times
\* are at least 1 s apart.
C8_AtMostOnePerWindow ==
    Len(sample_ticks) = 2 => sample_ticks[2] - sample_ticks[1] >= 10

\* C8 case: a second telemetry line exactly 1 s after the first.
C8_Witness ==
    /\ Len(sample_ticks) = 2 /\ sample_ticks[2] - sample_ticks[1] = 10
    /\ HasLine(out, "telemetry")

\* C9: at the nominal cadence no window of 1 s passes without a telemetry
\* line: consecutive lines come from ticks at most 1 s apart.
C9_AtLeastOnePerWindow ==
    Len(sample_ticks) = 2 => sample_ticks[2] - sample_ticks[1] <= 10

\* C10: whatever the two vcgencmd calls do, the sampling prints its line
\* and the loop goes on; a call that raised or returned malformed output
\* shows as None in its own field only, next to the other field's reading.
C10_SensorFailureAbsorbed ==
    probe.made =>
        /\ exit_status = 1 => HasLine(out, "stopping")
        /\ \E i \in 1..Len(out) :
            /\ out[i].kind = "telemetry"
            /\ out[i].cpu_freq = IF probe.freq = GoodFreqOutput
                                 THEN Float(600000000, 1000000) ELSE None
            /\ out[i].cpu_temp = IF probe.temp = GoodTempOutput
                                 THEN Float(472, 10) ELSE None
            /\ out[i].cpu_usage \in UsageReadings
            /\ out[i].load_avg \in LoadReadings
            /\ out[i].phase = phase /\ out[i].intensity = intensity

\* C10 case: malformed temperature output next to a good frequency output.
C10_Witness ==
    /\ probe.made /\ pc = "sleep"
    /\ probe.freq = GoodFreqOutput
    /\ probe.temp = Output(<<"t", "=", "\n">>)

\* The interrupt signal has reached main().
Interrupted ==
    \/ HasLine(out, "stopping")
    \/ \E i \in 1..Len(out) : out[i] = Traceback("KeyboardInterrupt")

Stopped == pc \in {"exited", "aborted"}

\* C11: when main() has ended after an interrupt that arrived with at least
\* one worker spawned, every spawned worker has had terminate called on it
\* exactly once and the exit status is 0.
C11_InterruptTerminatesAll ==
    (Interrupted /\ Stopped /\ processes # <<>>)
        => /\ exit_status = 0
           /\ \A i \in 1..Len(processes) : term_calls[processes[i]] = 1

\* C12: when p.start() has failed for some core, main() has not entered the
\* control loop and no worker spawned before the failure is still running.
C12_SpawnAllOrNone ==
    (\E i \in 1..Len(out) : out[i] = Traceback("OSError"))
        => /\ pc = "aborted" /\ ticks = 0
           /\ \A w \in Workers : wstate[w] # "running"

\* C13: the step in which a running worker crashes changes nothing but that
\* worker's state; a crashed worker is never running again; and whatever
\* the workers' states, the control loop has a next step to take (within
\* the iterations explored), so it keeps escalating and sampling.
C13_CrashIsolated ==
    [][ /\ \A w \in Workers :
            (wstate[w] = "running" /\ wstate'[w] = "crashed")
                => /\ UNCHANGED <<pc, clock, ticks, ctl, shared, processes, load,
                                  out, probe, sample_ticks, term_idx, term_calls,
                                  exit_status>>
                   /\ \A v \in Workers \ {w} : wstate'[v] = wstate[v]
        /\ \A w \in Workers : wstate[w] = "crashed" => wstate'[w] = "crashed"
        /\ (InLoop /\ (pc = "sleep" => ticks < MaxTicks)) => ENABLED LoopStep ]_vars

\* C13 case: with every worker crashed before its first pass, the loop has
\* escalated four times and printed a telemetry line.
C13_Witness ==
    /\ \A w \in Workers : wstate[w] = "crashed" /\ load[w] = Idle
    /\ pc = "sleep" /\ intensity = 5
    /\ HasLine(out, "escalation") /\ HasLine(out, "telemetry")

\* C14: at the nominal cadence the k-th escalation is done by the time a
\* tick observes k * 30.3 s, for every k the horizon reaches, so intensity
\* passes every bound as time advances and phase is 4 from 90.9 s on; once
\* 4 the phase stays 4, and an escalation taken at phase 4 adds 1 to the
\* intensity and leaves the phase alone.
C14_TerminalPhaseGrowingIntensity ==
    [][ /\ \A k \in 1..(CadenceHorizon \div 303) :
            (pc' \in {"log", "sleep"} /\ current_time' >= 303 * k)
                => intensity' > k /\ shared_intensity' > k
        /\ (pc' \in {"log", "sleep"} /\ current_time' >= 909)
                => phase' = 4 /\ shared_phase' = 4
        /\ phase = 4 => phase' = 4
        /\ shared_phase = 4 => shared_phase' = 4
        /\ (phase = 4 /\ pc = "esc" /\ pc' = "log")
                => intensity' = intensity + 1 /\ shared_intensity' = intensity + 1 ]_vars

\* C14 case: an escalation taken at phase 4 has raised the intensity to 5.
C14_Witness ==
    /\ phase = 4 /\ shared_phase = 4 /\ intensity = 5 /\ shared_intensity = 5
    /\ current_time >= 4 * phase_duration /\ pc = "sleep"

\* C15: the published phase and intensity change only in the two steps of
\* the control loop's escalation; no step of a worker, of the sampling or
\* of the shutdown changes them.
C15_SingleWriter ==
    [][ /\ shared_phase' # shared_phase
            => /\ pc = "tick" /\ pc' = "esc"
               /\ UNCHANGED <<wstate, load, term_calls>>
        /\ shared_intensity' # shared_intensity
            => /\ pc = "esc" /\ pc' = "log"
               /\ UNCHANGED <<wstate, load, term_calls>>
        /\ (\/ wstate' # wstate \/ load' # load
            \/ pc \in {"spawn", "log", "sleep", "handler", "exited", "aborted"})
            => UNCHANGED shared ]_vars

\* C15 case: the published pair has been written four times while a worker
\* ran passes and a telemetry line was printed.
C15_Witness ==
    /\ shared_intensity = 5 /\ HasLine(out, "telemetry")
    /\ \E w \in Workers : wstate[w] = "running" /\ load[w] = NoLoad

EscalationLines(o) == {i \in 1..Len(o) : o[i].kind = "escalation"}

\* C16: the step that completes an escalation prints exactly one
\* 'Escalating to phase p with intensity i' line, carrying the phase and
\* intensity the escalation has just published; no other step prints one;
\* and in an iteration's output the line comes before the telemetry
\* record, which shows the same values.
C16_EscalationLine ==
    [][ /\ (pc = "esc" /\ pc' = "log")
            => /\ out' = Append(out, [kind |-> "escalation", phase |-> shared_phase',
                                      intensity |-> shared_intensity'])
               /\ shared_intensity' # shared_intensity
        /\ ~(pc = "esc" /\ pc' = "log")
            => Cardinality(EscalationLines(out')) <= Cardinality(EscalationLines(out))
        /\ Cardinality(EscalationLines(out')) <= 1
        /\ \A i, j \in 1..Len(out') :
            (out'[i].kind = "escalation" /\ out'[j].kind = "telemetry")
                => /\ i < j
                   /\ out'[j].phase = out'[i].phase
                   /\ out'[j].intensity = out'[i].intensity ]_vars

\* C16 case: an iteration that escalated at phase 4 and then sampled.
C16_Witness ==
    /\ Len(out) = 2 /\ out[1].kind = "escalation" /\ out[2].kind = "telemetry"
    /\ out[1].phase = 4 /\ out[1].intensity = 5

\* C17: a tick escalates at most once; the escalation restarts the phase
\* timer from the time that tick observed, so it comes at least
\* phase_duration after the previous restart and none is due again in the
\* same tick; after a gap of several phase_durations one tick still
\* advances phase and intensity by one step only.
C17_OneEscalationPerTick ==
    [][ /\ phase' # phase
            => pc = "tick" /\ pc' = "esc" /\ phase' = phase + 1 /\ ticks' = ticks + 1
        /\ intensity' # intensity
            => pc = "esc" /\ pc' = "log" /\ intensity' = intensity + 1 /\ ticks' = ticks
        /\ phase_start_time' # phase_start_time => pc = "esc" /\ pc' = "log"
        /\ (pc = "esc" /\ pc' = "log")
            => /\ current_time - phase_start_time >= phase_duration
               /\ phase_start_time' = current_time
               /\ current_time' = current_time
        /\ pc' \in {"log", "sleep"}
            => /\ current_time' - phase_start_time' < phase_duration
               /\ intensity' - 1 <= ticks' ]_vars

\* C17 case: the second tick comes three phase_durations after the first
\* and has escalated once.
C17_Witness ==
    /\ pc = "sleep" /\ ticks = 2 /\ current_time >= 3 * phase_duration
    /\ phase = 2 /\ intensity = 2 /\ phase_start_time = current_time
    /\ HasLine(out, "escalation")

MinOf(a, b) == IF a < b THEN a ELSE b

\* C18: whenever the control loop stands between two iterations (at the
\* head of the loop or in its sleep), and after the escalation branch,
\* phase = min(4, intensity), for main()'s locals and for the shared pair.
C18_PhaseIsMinOfIntensity ==
    pc \in {"tick", "log", "sleep"}
        => /\ phase = MinOf(MaxPhase, intensity)
           /\ shared_phase = MinOf(MaxPhase, shared_intensity)

\* C18 case: the loop sleeping after the escalation that the clamp cut off.
C18_Witness ==
    /\ pc = "sleep" /\ ticks = MaxTicks
    /\ intensity = MaxPhase + 1 /\ phase = MaxPhase
    /\ shared_intensity = MaxPhase + 1 /\ shared_phase = MaxPhase

\* C19: at the sampling step main()'s phase and intensity equal the shared
\* pair, and every telemetry record of the iteration shows the shared pair.
C19_TelemetryShowsShared ==
    /\ pc = "log" => phase = shared_phase /\ intensity = shared_intensity
    /\ \A i \in 1..Len(out) :
        out[i].kind = "telemetry"
            => out[i].phase = shared_phase /\ out[i].intensity = shared_intensity

\* C19 case: a telemetry record printed at phase 4 with intensity 5.
C19_Witness ==
    \E i \in 1..Len(out) :
        /\ out[i].kind = "telemetry"
        /\ out[i].phase = 4 /\ out[i].intensity = 5
        /\ shared_phase = 4 /\ shared_intensity = 5

====
